---- MODULE Spec2Model ----
(***************************************************************************)
(* HVAC dashboard (src/app.py): the dataset normalizer load_data, the      *)
(* scenario engine compute_scenarios and the sidebar filters of the        *)
(* Streamlit script, as a state machine.                                   *)
(*                                                                         *)
(* Energy is counted in whole units (fixed point), so sums are exact.      *)
(* A pandas Timestamp is the number of minutes since 2022-06-01 00:00      *)
(* (the dataset covers June to August 2022, src/app.py:66); a CSV cell     *)
(* holding a date-time is the record of the fields of its text.            *)
(***************************************************************************)
EXTENDS Integers, Sequences, FiniteSets, TLC

VARIABLES
    csv,            \* the file hvac_dashboard_base.csv: [cols, rows]
    df_base,        \* load_data's result: [cols, rows]
    pc,             \* position of the script run
    total_base_kWh, \* compute_scenarios: local of the same name
    energy_s1,      \* compute_scenarios: column s1["energy_s1_kWh"]
    todo,           \* compute_scenarios: the date groups the loop has yet to visit
    window,         \* compute_scenarios: last_time and cutoff of the last iteration
    s1_part,        \* compute_scenarios: total_s1_kWh, economia1_kWh, daily_s1, mean
    energy_s2,      \* compute_scenarios: column s2["energy_s2_kWh"]
    scenario_stats, \* the dictionary compute_scenarios returns
    filters,        \* the sidebar widgets: date_range, business_mode, weekend_mode
    df_base_filt    \* the filtered copy of df_base

vars == <<csv, df_base, pc, total_base_kWh, energy_s1, todo, window, s1_part,
          energy_s2, scenario_stats, filters, df_base_filt>>

----------------------------------------------------------------------------
(* Bounds of the model *)

MaxRows == 3        \* rows of the CSV in the scenario-engine specification
MaxEnergy == 1      \* energy_5min_real_kWh of a row is in 0..MaxEnergy
MaxRawRows == 2     \* rows of the CSV in the normalizer specification
MaxUIRows == 2      \* rows of the CSV in the filter specification

(* Program constants *)

Hour == 60          \* pd.Timedelta(hours=1), in minutes

MinutesPerDay == 24 * 60

----------------------------------------------------------------------------
(* Generic helpers: pandas reductions *)

Range(s) == {s[i] : i \in DOMAIN s}

RECURSIVE SumFromTo(_, _, _)
\* s[lo] + ... + s[hi], summed by halves
SumFromTo(s, lo, hi) ==
    IF lo > hi THEN 0
    ELSE IF lo = hi THEN s[lo]
    ELSE LET mid == (lo + hi) \div 2
         IN  SumFromTo(s, lo, mid) + SumFromTo(s, mid + 1, hi)

\* Series.sum(): 0 for an empty series
SumSeq(s) == SumFromTo(s, 1, Len(s))

\* Series.max()
SetMax(S) == CHOOSE x \in S : \A y \in S : y <= x

RECURSIVE SortedSeq(_)
\* the elements of a finite set of integers, ascending
SortedSeq(S) ==
    IF S = {} THEN <<>>
    ELSE LET m == SetMax(S) IN Append(SortedSeq(S \ {m}), m)

NaN == [nan |-> TRUE]

\* Series.mean(): the exact quotient sum/count, NaN for an empty series
Mean(s) == IF s = <<>> THEN NaN ELSE [nan |-> FALSE, sum |-> SumSeq(s), count |-> Len(s)]

----------------------------------------------------------------------------
(* Calendar: June, July, August 2022 *)

DaysBefore(month) == IF month = 6 THEN 0 ELSE IF month = 7 THEN 30 ELSE 61

\* pd.to_datetime on the text of a cell
ToDatetime(text) ==
    (DaysBefore(text.month) + text.day - 1) * MinutesPerDay
        + text.hour * 60 + text.minute

\* Series.dt.date
DtDate(ts) ==
    LET d == ts \div MinutesPerDay
    IN  IF d < 30 THEN [year |-> 2022, month |-> 6, day |-> d + 1]
        ELSE IF d < 61 THEN [year |-> 2022, month |-> 7, day |-> d - 29]
        ELSE [year |-> 2022, month |-> 8, day |-> d - 60]

\* the month printed without its leading zero ("%Y-%-m")
Pad2Unpadded(n) == ToString(n)

Pad2(n) == IF n < 10 THEN "0" \o ToString(n) ELSE ToString(n)

\* Series.dt.strftime("%Y-%m")
StrftimeYm(ts) == LET d == DtDate(ts) IN ToString(d.year) \o "-" \o Pad2(d.month)

\* the order of datetime.date values
DateOrd(d) == (d.year * 100 + d.month) * 100 + d.day

OrdDate(n) == [year |-> n \div 10000, month |-> (n \div 100) % 100, day |-> n % 100]

\* Series.astype(str) on a year_month cell: text stays, a number is printed
AsStr(cell) == IF cell.kind = "str" THEN cell.s ELSE ToString(cell.n)

\* Series.astype(int) on a flag column that read_csv parsed as integers
AsInt(n) == n

----------------------------------------------------------------------------
(* 2. load_data *)

RequiredByLoad == {"timestamp"}

NoFrame == [cols |-> {}, rows |-> <<>>]

LoadRow(cols, raw) ==
    LET ts == ToDatetime(raw.timestamp)
    IN  [timestamp |-> ts,
         date |-> IF "date" \in cols THEN DtDate(ToDatetime(raw.date)) ELSE DtDate(ts),
         year_month |-> IF "year_month" \in cols THEN AsStr(raw.year_month)
                        ELSE StrftimeYm(ts),
         energy_5min_real_kWh |-> raw.energy_5min_real_kWh,
         on_off |-> raw.on_off,
         is_business_hours |-> IF "is_business_hours" \in cols
                               THEN AsInt(raw.is_business_hours)
                               ELSE raw.is_business_hours,
         is_weekend |-> IF "is_weekend" \in cols THEN AsInt(raw.is_weekend)
                        ELSE raw.is_weekend]

load_data(file) ==
    [cols |-> file.cols \cup {"date", "year_month"},
     rows |-> [i \in DOMAIN file.rows |-> LoadRow(file.cols, file.rows[i])]]

----------------------------------------------------------------------------
(* 3. compute_scenarios *)

BaseEnergy(df) == [i \in DOMAIN df.rows |-> df.rows[i].energy_5min_real_kWh]

\* grouping only the rows with on_off = 1
GroupKeysOnRows(df) ==
    LET ords == SortedSeq({DateOrd(df.rows[i].date) :
                    i \in {j \in DOMAIN df.rows : df.rows[j].on_off = 1}})
    IN  [k \in DOMAIN ords |-> OrdDate(ords[k])]

\* s1.groupby("date").groups: the distinct dates, in ascending order
GroupKeys(df) ==
    LET ords == SortedSeq({DateOrd(df.rows[i].date) : i \in DOMAIN df.rows})
    IN  [k \in DOMAIN ords |-> OrdDate(ords[k])]

DayMask(df, d) == {i \in DOMAIN df.rows : df.rows[i].date = d}

MaskOn(df, d) == {i \in DayMask(df, d) : df.rows[i].on_off = 1}

\* the last timestamp of the day, on or off
LastTimeOfDay(df, d) == SetMax({df.rows[i].timestamp : i \in DayMask(df, d)})

LastTime(df, d) == SetMax({df.rows[i].timestamp : i \in MaskOn(df, d)})

Cutoff(df, d) == LastTime(df, d) - Hour

\* the window closed at the cutoff: timestamp >= cutoff
MaskEarlyOffInclusive(df, d) ==
    LET last_time == LastTime(df, d)
        cutoff == Cutoff(df, d)
    IN  {i \in MaskOn(df, d) :
            /\ df.rows[i].timestamp >= cutoff
            /\ df.rows[i].timestamp <= last_time}

MaskEarlyOff(df, d) ==
    LET last_time == LastTime(df, d)
        cutoff == Cutoff(df, d)
    IN  {i \in MaskOn(df, d) :
            /\ df.rows[i].timestamp > cutoff
            /\ df.rows[i].timestamp <= last_time}

\* one iteration of the loop over the date groups
ZeroDay(df, col, d) ==
    IF MaskOn(df, d) = {} THEN col
    ELSE LET mask_early_off == MaskEarlyOff(df, d)
         IN  [i \in DOMAIN col |-> IF i \in mask_early_off THEN 0 ELSE col[i]]

\* the subtraction the wrong way round
DailySavingsFlipped(base_kWh, scenario_kWh) == scenario_kWh - base_kWh

DailySavings(base_kWh, scenario_kWh) == base_kWh - scenario_kWh

\* groupby("date").agg(sum, sum).reset_index() and the economia_kWh column
DailyAgg(df, col) ==
    LET keys == GroupKeys(df)
        row(d) ==
            LET b == SumSeq([k \in 1..Len(df.rows) |->
                        IF df.rows[k].date = d THEN df.rows[k].energy_5min_real_kWh ELSE 0])
                s == SumSeq([k \in 1..Len(col) |->
                        IF df.rows[k].date = d THEN col[k] ELSE 0])
            IN  [date |-> d, energy_base_kWh |-> b, energy_kWh |-> s,
                 economia_kWh |-> DailySavings(b, s)]
    IN  [k \in DOMAIN keys |-> row(keys[k])]

EconomiaCol(daily) == [k \in DOMAIN daily |-> daily[k].economia_kWh]

\* off-hours rows zeroed only when the unit is on
MaskOffHoursWhenOn(df) ==
    {i \in DOMAIN df.rows :
        df.rows[i].is_business_hours = 0 /\ df.rows[i].on_off = 1}

MaskOffHours(df) == {i \in DOMAIN df.rows : df.rows[i].is_business_hours = 0}

ZeroOffHours(df, col) ==
    LET mask_off_hours_all == MaskOffHours(df)
    IN  [i \in DOMAIN col |-> IF i \in mask_off_hours_all THEN 0 ELSE col[i]]

NoWindow == [set |-> FALSE]
NoPart == [set |-> FALSE]
NoStats == [set |-> FALSE]
NoFilters == [set |-> FALSE]

\* the dictionary compute_scenarios returns
Stats(total, part, e2, daily2) ==
    [set |-> TRUE,
     total_base_kWh |-> total,
     s1_total_kWh |-> part.total_s1_kWh,
     s1_economia_kWh |-> part.economia1_kWh,
     s1_economia_media_dia |-> part.economia1_media_dia,
     s1_daily |-> part.daily_s1,
     s2_total_kWh |-> SumSeq(e2),
     s2_economia_kWh |-> total - SumSeq(e2),
     s2_economia_media_dia |-> Mean(EconomiaCol(daily2)),
     s2_daily |-> daily2]

\* the daily aggregate summing the baseline column twice
S1PartBaselineTwice(df, total, e1) ==
    LET daily == DailyAgg(df, BaseEnergy(df))
    IN  [set |-> TRUE,
         total_s1_kWh |-> SumSeq(e1),
         economia1_kWh |-> total - SumSeq(e1),
         daily_s1 |-> daily,
         economia1_media_dia |-> Mean(EconomiaCol(daily))]

\* total_s1_kWh, economia1_kWh, daily_s1 and economia1_media_dia
S1Part(df, total, e1) ==
    LET daily == DailyAgg(df, e1)
    IN  [set |-> TRUE,
         total_s1_kWh |-> SumSeq(e1),
         economia1_kWh |-> total - SumSeq(e1),
         daily_s1 |-> daily,
         economia1_media_dia |-> Mean(EconomiaCol(daily))]

RECURSIVE ZeroDays(_, _, _)
\* the whole loop over the date groups
ZeroDays(df, col, keys) ==
    IF keys = <<>> THEN col
    ELSE ZeroDays(df, ZeroDay(df, col, Head(keys)), Tail(keys))

\* compute_scenarios as a function of its argument (what st.cache_data stores)
ComputeScenarios(df) ==
    LET total == SumSeq(BaseEnergy(df))
        e1 == ZeroDays(df, BaseEnergy(df), GroupKeys(df))
        e2 == ZeroOffHours(df, BaseEnergy(df))
    IN  Stats(total, S1Part(df, total, e1), e2, DailyAgg(df, e2))

----------------------------------------------------------------------------
(* The script run, step by step *)

\* line 57: df_base = load_data()
LoadData ==
    /\ pc = "start"
    /\ RequiredByLoad \subseteq csv.cols
    /\ df_base' = load_data(csv)
    /\ pc' = "loaded"
    /\ UNCHANGED <<csv, total_base_kWh, energy_s1, todo, window, s1_part,
                   energy_s2, scenario_stats, filters, df_base_filt>>

\* line 34: base["timestamp"] raises KeyError, the script ends
LoadDataFault ==
    /\ pc = "start"
    /\ ~(RequiredByLoad \subseteq csv.cols)
    /\ pc' = "load_fault"
    /\ UNCHANGED <<csv, df_base, total_base_kWh, energy_s1, todo, window, s1_part,
                   energy_s2, scenario_stats, filters, df_base_filt>>

\* line 144 calls compute_scenarios(df_base); lines 71-76
Call ==
    /\ pc = "loaded"
    /\ "energy_5min_real_kWh" \in df_base.cols
    /\ total_base_kWh' = SumSeq(BaseEnergy(df_base))
    /\ energy_s1' = BaseEnergy(df_base)
    /\ todo' = GroupKeys(df_base)
    /\ pc' = "s1_loop"
    /\ UNCHANGED <<csv, df_base, window, s1_part, energy_s2, scenario_stats,
                   filters, df_base_filt>>

\* line 72: base["energy_5min_real_kWh"] raises KeyError inside compute_scenarios
CallFault ==
    /\ pc = "loaded"
    /\ "energy_5min_real_kWh" \notin df_base.cols
    /\ pc' = "scenario_fault"
    /\ UNCHANGED <<csv, df_base, total_base_kWh, energy_s1, todo, window, s1_part,
                   energy_s2, scenario_stats, filters, df_base_filt>>

\* lines 78-94: one iteration of the loop over the date groups
S1Day ==
    /\ pc = "s1_loop"
    /\ todo # <<>>
    /\ LET d == Head(todo)
       IN  /\ energy_s1' = ZeroDay(df_base, energy_s1, d)
           /\ window' = IF MaskOn(df_base, d) = {} THEN window
                        ELSE [set |-> TRUE, date |-> d,
                              last_time |-> LastTime(df_base, d),
                              cutoff |-> Cutoff(df_base, d)]
    /\ todo' = Tail(todo)
    /\ UNCHANGED <<csv, df_base, pc, total_base_kWh, s1_part, energy_s2,
                   scenario_stats, filters, df_base_filt>>

\* lines 96-108: totals and daily aggregate of scenario 1
S1Totals ==
    /\ pc = "s1_loop"
    /\ todo = <<>>
    /\ s1_part' = S1Part(df_base, total_base_kWh, energy_s1)
    /\ pc' = "s2"
    /\ UNCHANGED <<csv, df_base, total_base_kWh, energy_s1, todo, window,
                   energy_s2, scenario_stats, filters, df_base_filt>>

\* lines 111-141 and the assignment of line 144
S2Return ==
    /\ pc = "s2"
    /\ "is_business_hours" \in df_base.cols
    /\ LET e2 == ZeroOffHours(df_base, BaseEnergy(df_base))
       IN  /\ energy_s2' = e2
           /\ scenario_stats' = Stats(total_base_kWh, s1_part, e2, DailyAgg(df_base, e2))
    /\ pc' = "computed"
    /\ UNCHANGED <<csv, df_base, total_base_kWh, energy_s1, todo, window, s1_part,
                   filters, df_base_filt>>

\* line 114: s2["is_business_hours"] raises KeyError inside compute_scenarios
S2Fault ==
    /\ pc = "s2"
    /\ "is_business_hours" \notin df_base.cols
    /\ pc' = "scenario_fault"
    /\ UNCHANGED <<csv, df_base, total_base_kWh, energy_s1, todo, window, s1_part,
                   energy_s2, scenario_stats, filters, df_base_filt>>

----------------------------------------------------------------------------
(* Inputs *)

Text(mo, d, h, mi) == [year |-> 2022, month |-> mo, day |-> d, hour |-> h, minute |-> mi]

NoCell == [kind |-> "none"]

\* is_weekend as the business calendar gives it: 2022-06-01 was a Wednesday
WeekendFlag(text) ==
    IF ((DaysBefore(text.month) + text.day - 1) + 2) % 7 >= 5 THEN 1 ELSE 0

\* Thursday 2022-06-30 and Friday 2022-07-01: readings inside, at the edge of and
\* outside the last hour of a day, and across midnight and the end of a month
SampleTimeline ==
    << Text(6, 30, 23, 0), Text(6, 30, 23, 30),
       Text(7, 1, 0, 0), Text(7, 1, 1, 0), Text(7, 1, 1, 30) >>

EngineCols ==
    {"timestamp", "energy_5min_real_kWh", "on_off", "is_business_hours", "is_weekend"}

RawRow(text, e, on, bh) ==
    [timestamp |-> text, date |-> NoCell, year_month |-> NoCell,
     energy_5min_real_kWh |-> e, on_off |-> on, is_business_hours |-> bh,
     is_weekend |-> WeekendFlag(text)]

Attrs == [e : 0..MaxEnergy, on : 0..1, bh : 0..1]

\* a CSV with the rows of `picked` (indices into `timeline`), in timestamp order
CsvOf(timeline, picked, attr) ==
    LET idx == SortedSeq(picked)
    IN  [cols |-> EngineCols,
         rows |-> [k \in DOMAIN idx |->
                    RawRow(timeline[idx[k]], attr[idx[k]].e, attr[idx[k]].on,
                           attr[idx[k]].bh)]]

InitRest ==
    /\ df_base = NoFrame
    /\ pc = "start"
    /\ total_base_kWh = 0
    /\ energy_s1 = <<>>
    /\ todo = <<>>
    /\ window = NoWindow
    /\ s1_part = NoPart
    /\ energy_s2 = <<>>
    /\ scenario_stats = NoStats
    /\ filters = NoFilters
    /\ df_base_filt = NoFrame

Init ==
    /\ \E picked \in SUBSET (DOMAIN SampleTimeline) :
         /\ Cardinality(picked) <= MaxRows
         /\ \E attr \in [picked -> Attrs] : csv = CsvOf(SampleTimeline, picked, attr)
    /\ InitRest

Next == LoadData \/ Call \/ S1Day \/ S1Totals \/ S2Return

Spec == Init /\ [][Next]_vars

----------------------------------------------------------------------------
(* The normalizer on files with and without each column *)

LoadTimeline == << Text(6, 30, 23, 30), Text(7, 1, 0, 0), Text(8, 1, 0, 30) >>

\* cells of a supplied date column: "2022-06-30", "2022-07-01"
DateCells == {Text(6, 30, 0, 0), Text(7, 1, 0, 0)}

\* cells of a supplied year_month column: two labels and a number
YearMonthCells ==
    {[kind |-> "str", s |-> "2022-06"], [kind |-> "str", s |-> "2022-07"],
     [kind |-> "int", n |-> 202207]}

OptionalCols ==
    {"timestamp", "energy_5min_real_kWh", "date", "year_month",
     "is_business_hours", "is_weekend"}

CellsOf(cols, name, cells) == IF name \in cols THEN cells ELSE {NoCell}

LoadRows(cols, picked, cell) ==
    LET idx == SortedSeq(picked)
    IN  [k \in DOMAIN idx |->
            [timestamp |-> IF "timestamp" \in cols THEN LoadTimeline[idx[k]] ELSE NoCell,
             date |-> cell[idx[k]].date,
             year_month |-> cell[idx[k]].year_month,
             energy_5min_real_kWh |-> IF "energy_5min_real_kWh" \in cols THEN 1 ELSE 0,
             on_off |-> 1,
             is_business_hours |-> IF "is_business_hours" \in cols THEN idx[k] % 2 ELSE 0,
             is_weekend |-> IF "is_weekend" \in cols
                            THEN WeekendFlag(LoadTimeline[idx[k]]) ELSE 0]]

InitLoad ==
    /\ \E opt \in SUBSET OptionalCols :
       \E picked \in SUBSET (DOMAIN LoadTimeline) :
         /\ Cardinality(picked) <= MaxRawRows
         /\ \E cell \in [picked -> [date : CellsOf(opt, "date", DateCells),
                                    year_month : CellsOf(opt, "year_month", YearMonthCells)]] :
              csv = [cols |-> opt \cup {"on_off"}, rows |-> LoadRows(opt, picked, cell)]
    /\ InitRest

NextLoad ==
    \/ LoadData \/ LoadDataFault
    \/ Call \/ CallFault
    \/ S1Day \/ S1Totals
    \/ S2Return \/ S2Fault

SpecLoad == InitLoad /\ [][NextLoad]_vars

(* Properties of load_data, under SpecLoad *)

Loaded == pc \notin {"start", "load_fault"}

\* C9: a file without the timestamp column or without the energy column makes
\* load_data itself fault, no normalized dataset being produced; a file that only
\* lacks date, year_month, is_business_hours or is_weekend does not.
C9_LoaderFaultsOnMissingColumn ==
    /\ ("timestamp" \notin csv.cols \/ "energy_5min_real_kWh" \notin csv.cols)
          => (~Loaded /\ df_base = NoFrame)
    /\ pc = "load_fault"
          => ("timestamp" \notin csv.cols \/ "energy_5min_real_kWh" \notin csv.cols)

\* the calendar date and the month label written in the text of a cell
TextDate(text) == [year |-> text.year, month |-> text.month, day |-> text.day]

MonthLabel(text) ==
    IF text.month = 6 THEN "2022-06" ELSE IF text.month = 7 THEN "2022-07" ELSE "2022-08"

CellLabel(cell) ==
    IF cell = [kind |-> "int", n |-> 202207] THEN "202207" ELSE cell.s

\* C10 as stated: in every dataset load_data returns, date is the calendar date
\* of the row's timestamp and year_month its "YYYY-MM" label, whether or not the
\* file carries date and year_month columns.
C10_DerivedFromTimestamp ==
    Loaded =>
        \A i \in DOMAIN df_base.rows :
            /\ df_base.rows[i].date = TextDate(csv.rows[i].timestamp)
            /\ df_base.rows[i].year_month = MonthLabel(csv.rows[i].timestamp)

\* C10 as amended: date is the calendar date of the row's timestamp when the file
\* has no date column and the calendar date of the supplied date cell when it has
\* one; year_month is the "YYYY-MM" label of the timestamp when the file has no
\* year_month column and the supplied cell as a string when it has one.
C10_DerivedOrTrusted ==
    Loaded =>
        \A i \in DOMAIN df_base.rows :
            /\ df_base.rows[i].date =
                  IF "date" \in csv.cols THEN TextDate(csv.rows[i].date)
                  ELSE TextDate(csv.rows[i].timestamp)
            /\ df_base.rows[i].year_month =
                  IF "year_month" \in csv.cols THEN CellLabel(csv.rows[i].year_month)
                  ELSE MonthLabel(csv.rows[i].timestamp)

C10_Witness ==
    /\ pc = "loaded"
    /\ "date" \in csv.cols
    /\ "year_month" \notin csv.cols
    /\ Len(df_base.rows) = 2
    /\ df_base.rows[1].date # TextDate(csv.rows[1].timestamp)
    /\ df_base.rows[2].date = TextDate(csv.rows[2].timestamp)
    /\ df_base.rows[1].year_month # df_base.rows[2].year_month

----------------------------------------------------------------------------
(* 4. The sidebar filters; every widget change reruns the script *)

DayIndex(d) == DaysBefore(d.month) + d.day - 1

MinDate(df) == GroupKeys(df)[1]
MaxDate(df) == GroupKeys(df)[Len(GroupKeys(df))]

\* the dates st.sidebar.date_input offers: min_value .. max_value
OfferedDates(df) ==
    {DtDate(k * MinutesPerDay) : k \in DayIndex(MinDate(df))..DayIndex(MaxDate(df))}

BusinessModes == {"Todos", "So comercial", "So fora do comercial"}
WeekendModes == {"Todos", "So dias uteis", "So fim de semana"}

BusinessVals(mode) ==
    IF mode = "Todos" THEN {0, 1} ELSE IF mode = "So comercial" THEN {1} ELSE {0}

WeekendVals(mode) ==
    IF mode = "Todos" THEN {0, 1} ELSE IF mode = "So dias uteis" THEN {0} ELSE {1}

\* lines 192-197: the mask, row by row
Mask(r, f) ==
    /\ DateOrd(r.date) >= DateOrd(f.start_date)
    /\ DateOrd(r.date) <= DateOrd(f.end_date)
    /\ r.is_business_hours \in BusinessVals(f.business_mode)
    /\ r.is_weekend \in WeekendVals(f.weekend_mode)

RECURSIVE SelectRows(_, _)
\* df[mask]: the rows the mask keeps, in order
SelectRows(rows, f) ==
    IF rows = <<>> THEN <<>>
    ELSE IF Mask(Head(rows), f) THEN <<Head(rows)>> \o SelectRows(Tail(rows), f)
    ELSE SelectRows(Tail(rows), f)

\* line 198
FilterFrame(df, f) == [cols |-> df.cols, rows |-> SelectRows(df.rows, f)]

\* the scenarios computed from the frame the filters produce
ScenarioInputFiltered(full, filtered) == filtered

\* line 144: the argument of compute_scenarios
ScenarioInput(full, filtered) == full

DefaultFilters(df) ==
    [set |-> TRUE, start_date |-> MinDate(df), end_date |-> MaxDate(df),
     business_mode |-> "Todos", weekend_mode |-> "Todos"]

\* lines 149-202 of the first run, the widgets at their defaults (on a frame of
\* zero rows min_date and max_date are NaN and what st.sidebar.date_input does
\* with them is Streamlit's business: the run is followed no further)
Sidebar ==
    /\ pc = "computed"
    /\ df_base.rows # <<>>
    /\ filters' = DefaultFilters(df_base)
    /\ df_base_filt' = FilterFrame(df_base, filters')
    /\ pc' = IF df_base_filt'.rows = <<>> THEN "stopped" ELSE "rendered"
    /\ UNCHANGED <<csv, df_base, total_base_kWh, energy_s1, todo, window, s1_part,
                   energy_s2, scenario_stats>>

\* a rerun of the script with the widgets at f: load_data and compute_scenarios
\* answer from st.cache_data, lines 149-202 run again
Rerun(f) ==
    /\ pc \in {"rendered", "stopped"}
    /\ filters' = f
    /\ df_base' = load_data(csv)
    /\ df_base_filt' = FilterFrame(df_base', f)
    /\ scenario_stats' = ComputeScenarios(ScenarioInput(df_base', df_base_filt'))
    /\ pc' = IF df_base_filt'.rows = <<>> THEN "stopped" ELSE "rendered"
    /\ UNCHANGED <<csv, total_base_kWh, energy_s1, todo, window, s1_part, energy_s2>>

SetDateRange ==
    /\ filters.set
    /\ \E s, e \in OfferedDates(df_base) :
         /\ DateOrd(s) <= DateOrd(e)
         /\ <<s, e>> # <<filters.start_date, filters.end_date>>
         /\ Rerun([filters EXCEPT !.start_date = s, !.end_date = e])

SetBusinessMode ==
    /\ filters.set
    /\ \E m \in BusinessModes \ {filters.business_mode} :
         Rerun([filters EXCEPT !.business_mode = m])

SetWeekendMode ==
    /\ filters.set
    /\ \E m \in WeekendModes \ {filters.weekend_mode} :
         Rerun([filters EXCEPT !.weekend_mode = m])

\* Friday 2022-07-01 and Saturday 2022-07-02
UITimeline == << Text(7, 1, 16, 30), Text(7, 1, 17, 0), Text(7, 2, 17, 0) >>

InitUI ==
    /\ \E picked \in SUBSET (DOMAIN UITimeline) :
         /\ picked # {}
         /\ Cardinality(picked) <= MaxUIRows
         /\ \E attr \in [picked -> Attrs] : csv = CsvOf(UITimeline, picked, attr)
    /\ InitRest

NextUI ==
    \/ LoadData \/ Call \/ S1Day \/ S1Totals \/ S2Return
    \/ Sidebar
    \/ SetDateRange \/ SetBusinessMode \/ SetWeekendMode

SpecUI == InitUI /\ [][NextUI]_vars

(* Properties of the filters, under SpecUI *)

\* C7: whatever the date range, business-hours mode and weekend mode, and after
\* any sequence of filter changes, the scenario result on display is the one
\* computed from the whole dataset.
C7_ScenariosIgnoreFilters ==
    pc \in {"rendered", "stopped"} => scenario_stats = ComputeScenarios(load_data(csv))

C7_Witness ==
    /\ pc = "rendered"
    /\ filters # DefaultFilters(df_base)
    /\ Len(df_base_filt.rows) < Len(df_base.rows)
    /\ scenario_stats.s1_economia_kWh > 0
    /\ scenario_stats.s2_economia_kWh > 0
    /\ ComputeScenarios(df_base_filt) # scenario_stats

----------------------------------------------------------------------------
(* A day sampled at a fixed cadence: readings from 08:00 to 18:00 of Thursday
   2022-06-30, 1 kWh each, the unit on from `first` to 17:00 *)

Cadences == {5, 10, 15, 20, 30, 60}

FirstOnTimes == {h * 60 : h \in 8..17}

DayOpens == 8 * 60
DayCloses == 18 * 60
LastOnTime == 17 * 60

CadenceDay(first, step) ==
    [cols |-> EngineCols,
     rows |-> [k \in 1..((DayCloses - DayOpens) \div step + 1) |->
                LET m == DayOpens + (k - 1) * step
                IN  RawRow(Text(6, 30, m \div 60, m % 60), 1,
                           IF first <= m /\ m <= LastOnTime THEN 1 ELSE 0, 1)]]

InitBoundary ==
    /\ \E first \in FirstOnTimes : \E step \in Cadences : csv = CadenceDay(first, step)
    /\ InitRest

SpecBoundary == InitBoundary /\ [][Next]_vars

(* Properties of scenario 1 on the cadence day, under SpecBoundary *)

\* the day of the claim: on from 09:00 to 17:00, one reading every 5 minutes
ClaimDay == CadenceDay(9 * 60, 5)

Zeroed == {i \in DOMAIN energy_s1 : energy_s1[i] = 0}

InWindow(i, from, to) ==
    /\ df_base.rows[i].timestamp > ToDatetime(from)
    /\ df_base.rows[i].timestamp <= ToDatetime(to)

\* C6 as stated: on the day with on_off = 1 readings at 09:00, 09:05, ..., 17:00
\* of 1 kWh each, the cutoff is 16:00, 13 readings are zeroed and the day saves
\* 13 kWh.
C6_ThirteenZeroed ==
    (csv = ClaimDay /\ pc = "computed") =>
        /\ window.cutoff = ToDatetime(Text(6, 30, 16, 0))
        /\ Cardinality(Zeroed) = 13
        /\ scenario_stats.s1_daily[1].economia_kWh = 13

\* C6 as amended: on that day the cutoff is 16:00, the zeroed readings are the 12
\* readings of (16:00, 17:00] (16:05, ..., 17:00; the reading at 16:00 keeps its
\* energy) and the day saves 12 kWh.
C6_TwelveZeroed ==
    (csv = ClaimDay /\ pc = "computed") =>
        /\ window.cutoff = ToDatetime(Text(6, 30, 16, 0))
        /\ Zeroed = {i \in DOMAIN energy_s1 :
                        InWindow(i, Text(6, 30, 16, 0), Text(6, 30, 17, 0))}
        /\ Cardinality(Zeroed) = 12
        /\ \A i \in DOMAIN energy_s1 :
              df_base.rows[i].timestamp = ToDatetime(Text(6, 30, 16, 0))
                  => energy_s1[i] = 1
        /\ Len(scenario_stats.s1_daily) = 1
        /\ scenario_stats.s1_daily[1].economia_kWh = 12

C6_Witness ==
    /\ csv = ClaimDay
    /\ pc = "computed"
    /\ window.set
    /\ window.last_time = ToDatetime(Text(6, 30, 17, 0))
    /\ scenario_stats.s1_economia_kWh > 0

----------------------------------------------------------------------------
(* Properties of compute_scenarios, under Spec *)

N == Len(df_base.rows)
Row(i) == df_base.rows[i]
Energy(i) == df_base.rows[i].energy_5min_real_kWh

InputDates == {Row(i).date : i \in 1..N}

OnOfDate(d) == {i \in 1..N : Row(i).date = d /\ Row(i).on_off = 1}

LastOn(d) == SetMax({Row(i).timestamp : i \in OnOfDate(d)})

\* the reading lies in the last hour of operation of its own date
InLastHour(i) ==
    /\ Row(i).on_off = 1
    /\ OnOfDate(Row(i).date) # {}
    /\ LastOn(Row(i).date) - Hour < Row(i).timestamp
    /\ Row(i).timestamp <= LastOn(Row(i).date)

LoopStarted == pc \in {"s1_loop", "s2", "computed"}

\* C1: scenario 1 sets a reading to 0 exactly when it has on_off = 1 and lies in
\* (last_time(d) - 1 hour, last_time(d)] of its own date d; every other reading,
\* and every reading of a date the loop has not visited or that has no on_off = 1
\* reading, keeps its baseline energy.
C1_Scenario1Zeroing ==
    LoopStarted =>
        \A i \in 1..N :
            energy_s1[i] = IF Row(i).date \notin Range(todo) /\ InLastHour(i)
                           THEN 0 ELSE Energy(i)

C1_Witness ==
    /\ pc = "computed"
    /\ \E i, j, k \in 1..N :
        /\ Row(i).date = Row(j).date /\ Row(i).on_off = 1 /\ Row(j).on_off = 1
        /\ Energy(i) > 0 /\ energy_s1[i] = 0
        /\ Energy(j) > 0 /\ energy_s1[j] = Energy(j)
        /\ OnOfDate(Row(k).date) = {} /\ Energy(k) > 0 /\ energy_s1[k] = Energy(k)

SumWhereBusiness(v) ==
    SumSeq([i \in 1..N |-> IF Row(i).is_business_hours = v THEN Energy(i) ELSE 0])

\* C2: scenario 2's total energy is the baseline energy of the readings with
\* is_business_hours = 1 and its total savings the baseline energy of those with
\* is_business_hours = 0, whatever the readings' on_off.
C2_Scenario2Exact ==
    pc = "computed" =>
        /\ scenario_stats.s2_total_kWh = SumWhereBusiness(1)
        /\ scenario_stats.s2_economia_kWh = SumWhereBusiness(0)

C2_Witness ==
    /\ pc = "computed"
    /\ \E i, j \in 1..N :
        /\ Row(i).is_business_hours = 1 /\ Row(i).on_off = 0 /\ Energy(i) > 0
        /\ Row(j).is_business_hours = 0 /\ Row(j).on_off = 0 /\ Energy(j) > 0
    /\ scenario_stats.s2_total_kWh > 0
    /\ scenario_stats.s2_economia_kWh > 0

\* C3: in both scenarios total_base - total_scenario = total_savings, and the
\* savings of the daily rows add up to the same total_savings.
C3_Conservation ==
    pc = "computed" =>
        /\ scenario_stats.total_base_kWh - scenario_stats.s1_total_kWh
              = scenario_stats.s1_economia_kWh
        /\ SumSeq(EconomiaCol(scenario_stats.s1_daily)) = scenario_stats.s1_economia_kWh
        /\ scenario_stats.total_base_kWh - scenario_stats.s2_total_kWh
              = scenario_stats.s2_economia_kWh
        /\ SumSeq(EconomiaCol(scenario_stats.s2_daily)) = scenario_stats.s2_economia_kWh

C3_Witness ==
    /\ pc = "computed"
    /\ Len(scenario_stats.s1_daily) = 2
    /\ \A k \in 1..2 : scenario_stats.s1_daily[k].economia_kWh > 0
    /\ scenario_stats.s2_economia_kWh > 0
    /\ scenario_stats.s1_economia_kWh # scenario_stats.s2_economia_kWh

\* C4: the scenario energy of every reading is within [0, baseline energy] in both
\* scenarios, and the savings of every day are >= 0.
C4_NonNegativity ==
    /\ \A i \in DOMAIN energy_s1 : 0 <= energy_s1[i] /\ energy_s1[i] <= Energy(i)
    /\ \A i \in DOMAIN energy_s2 : 0 <= energy_s2[i] /\ energy_s2[i] <= Energy(i)
    /\ s1_part.set => \A k \in DOMAIN s1_part.daily_s1 :
                          s1_part.daily_s1[k].economia_kWh >= 0
    /\ scenario_stats.set =>
          /\ \A k \in DOMAIN scenario_stats.s1_daily :
                scenario_stats.s1_daily[k].economia_kWh >= 0
          /\ \A k \in DOMAIN scenario_stats.s2_daily :
                scenario_stats.s2_daily[k].economia_kWh >= 0

C4_Witness ==
    /\ pc = "computed"
    /\ \E i \in 1..N : energy_s1[i] = 0 /\ Energy(i) > 0
    /\ \E i \in 1..N : energy_s2[i] = 0 /\ Energy(i) > 0
    /\ \E k \in DOMAIN scenario_stats.s1_daily :
          scenario_stats.s1_daily[k].economia_kWh > 0
    /\ \E k \in DOMAIN scenario_stats.s2_daily :
          scenario_stats.s2_daily[k].economia_kWh > 0

DailyDates(daily) == {daily[k].date : k \in DOMAIN daily}

\* C5: the daily sequence of each scenario holds exactly the distinct dates of the
\* input, each once; a date with no on_off = 1 reading is in scenario 1's daily
\* sequence, with savings 0.
C5_DayCompleteness ==
    pc = "computed" =>
        /\ DailyDates(scenario_stats.s1_daily) = InputDates
        /\ Len(scenario_stats.s1_daily) = Cardinality(InputDates)
        /\ DailyDates(scenario_stats.s2_daily) = InputDates
        /\ Len(scenario_stats.s2_daily) = Cardinality(InputDates)
        /\ \A d \in InputDates :
              OnOfDate(d) = {} =>
                  \E k \in DOMAIN scenario_stats.s1_daily :
                      /\ scenario_stats.s1_daily[k].date = d
                      /\ scenario_stats.s1_daily[k].economia_kWh = 0

C5_Witness ==
    /\ pc = "computed"
    /\ Cardinality(InputDates) = 2
    /\ \E d \in InputDates :
          /\ OnOfDate(d) = {}
          /\ \E i \in 1..N : Row(i).date = d /\ Energy(i) > 0
    /\ \E d \in InputDates : OnOfDate(d) # {}

\* C8: a dataset of zero readings never yields a scenario result: the caller
\* rejects it before compute_scenarios, or the computation faults.
C8_EmptyNeverReturns ==
    ~(Len(csv.rows) = 0 /\ pc = "computed" /\ scenario_stats.set)

====
